---- MODULE Spec2Model ----
(***************************************************************************)
(* Model of sfl_translation.py: the SFL feature extractor (keyword rules   *)
(* over a text), the SFLTranslator facade and the TranslationAgent wrapper.*)
(*                                                                         *)
(* A Python str is modelled as a sequence of one-character strings, so     *)
(* that lower(), strip(), split(), endswith() and the substring test `in`  *)
(* are computed character by character.  Python's None is the empty        *)
(* sequence <<>>; an optional record r that is present is <<r>>.           *)
(***************************************************************************)
EXTENDS Integers, Sequences, FiniteSets, TLC

VARIABLES
    text,        \* extractor: the str handed to _extract_sfl_features
    features,    \* extractor: None, or the SFLAnalysis it returned
    translator,  \* facade: the fields of the SFLTranslator object
    call,        \* facade: the arguments of the translate call
    result,      \* facade: None, or the TranslationResult returned
    agent_id,    \* agent: TranslationAgent.agent_id
    callbacks,   \* agent: TranslationAgent.callbacks (a dict)
    is_running,  \* agent: TranslationAgent.is_running
    stdout,      \* agent: the last line print() wrote, None before any
    events,      \* agent: what the last agent call did, in program order
    history      \* agent: the last start-or-stop call and the last callback
                 \*        handed to register_callback that was not None

vars == <<text, features, translator, call, result,
          agent_id, callbacks, is_running, stdout, events, history>>

extractorVars == <<text, features>>
facadeVars == <<translator, call, result>>
agentVars == <<agent_id, callbacks, is_running, stdout, events, history>>

None == <<>>

(***************************************************************************)
(* Bounds of the model.                                                    *)
(***************************************************************************)
\* a text of the extractor is at most MaxFrags fragments long
MaxFrags == 3
\* a text of the facade is at most MaxFacadeFrags fragments long
MaxFacadeFrags == 1

(***************************************************************************)
(* Python str primitives.                                                  *)
(***************************************************************************)
\* some of the characters str.isspace() accepts
Whitespace == {" ", "\t", "\n"}

isspace(c) == c \in Whitespace

\* str.lower() on the ASCII letters
LowerMap ==
    [A |-> "a", B |-> "b", C |-> "c", D |-> "d", E |-> "e", F |-> "f",
     G |-> "g", H |-> "h", I |-> "i", J |-> "j", K |-> "k", L |-> "l",
     M |-> "m", N |-> "n", O |-> "o", P |-> "p", Q |-> "q", R |-> "r",
     S |-> "s", T |-> "t", U |-> "u", V |-> "v", W |-> "w", X |-> "x",
     Y |-> "y", Z |-> "z"]

lower_char(c) == IF c \in DOMAIN LowerMap THEN LowerMap[c] ELSE c

lower(s) == [i \in 1..Len(s) |-> lower_char(s[i])]

RECURSIVE lstrip(_)
lstrip(s) ==
    IF s = <<>> THEN s
    ELSE IF isspace(Head(s)) THEN lstrip(Tail(s)) ELSE s

RECURSIVE rstrip(_)
rstrip(s) ==
    IF s = <<>> THEN s
    ELSE IF isspace(s[Len(s)]) THEN rstrip(SubSeq(s, 1, Len(s) - 1)) ELSE s

strip(s) == rstrip(lstrip(s))

endswith(s, suffix) ==
    /\ Len(suffix) <= Len(s)
    /\ SubSeq(s, Len(s) - Len(suffix) + 1, Len(s)) = suffix

\* str.split() with no separator: the maximal runs of non-whitespace
RECURSIVE split_scan(_, _, _)
split_scan(rest, word, words) ==
    IF rest = <<>>
    THEN (IF word = <<>> THEN words ELSE Append(words, word))
    ELSE IF isspace(Head(rest))
         THEN split_scan(Tail(rest), <<>>,
                         IF word = <<>> THEN words ELSE Append(words, word))
         ELSE split_scan(Tail(rest), Append(word, Head(rest)), words)

split(s) == split_scan(s, <<>>, <<>>)

\* the substring test `sub in s`
str_in(sub, s) ==
    \E i \in 0..(Len(s) - Len(sub)) : SubSeq(s, i + 1, i + Len(sub)) = sub

\* any(marker in s for marker in markers): the list is walked in order and
\* the walk stops at the first marker found
RECURSIVE any_in(_, _)
any_in(markers, s) ==
    IF markers = <<>> THEN FALSE
    ELSE IF str_in(Head(markers), s) THEN TRUE
    ELSE any_in(Tail(markers), s)

\* [m for m in markers if m in s]
RECURSIVE filter_in(_, _)
filter_in(markers, s) ==
    IF markers = <<>> THEN <<>>
    ELSE IF str_in(Head(markers), s)
         THEN <<Head(markers)>> \o filter_in(Tail(markers), s)
         ELSE filter_in(Tail(markers), s)

(***************************************************************************)
(* The keyword tables of the extractor.                                    *)
(***************************************************************************)
verbal_markers ==
    << <<"s", "a", "i", "d">>,
       <<"a", "n", "n", "o", "u", "n", "c", "e", "d">>,
       <<"t", "o", "l", "d">>,
       <<"a", "s", "k", "e", "d">> >>

mental_markers ==
    << <<"t", "h", "i", "n", "k">>,
       <<"b", "e", "l", "i", "e", "v", "e">>,
       <<"k", "n", "o", "w">>,
       <<"f", "e", "e", "l">> >>

material_markers ==
    << <<"d", "o">>,
       <<"m", "a", "k", "e">>,
       <<"c", "r", "e", "a", "t", "e">>,
       <<"b", "u", "i", "l", "d">> >>

business_terms ==
    << <<"c", "o", "m", "m", "i", "t", "t", "e", "e">>,
       <<"m", "e", "r", "g", "e", "r">>,
       <<"C", "E", "O">>,
       <<"p", "r", "o", "p", "o", "s", "a", "l">> >>

formal_markers ==
    << <<"s", "h", "a", "l", "l">>,
       <<"h", "e", "r", "e", "i", "n">>,
       <<"a", "f", "o", "r", "e", "m", "e", "n", "t", "i", "o", "n", "e", "d">> >>

cohesion_list ==
    << <<"h", "o", "w", "e", "v", "e", "r">>,
       <<"t", "h", "e", "r", "e", "f", "o", "r", "e">>,
       <<"m", "o", "r", "e", "o", "v", "e", "r">>,
       <<"t", "h", "u", "s">> >>

\* the values of the ProcessType enum
ProcessType ==
    {"material", "mental", "relational", "verbal", "behavioral", "existential"}

(***************************************************************************)
(* The feature extractor.                                                  *)
(***************************************************************************)
\* the mental keywords tried before the verbal ones
_detect_process_type_mental_first(t) ==
    LET text_lower == lower(t) IN
    IF any_in(mental_markers, text_lower) THEN "mental"
    ELSE IF any_in(verbal_markers, text_lower) THEN "verbal"
    ELSE IF any_in(material_markers, text_lower) THEN "material"
    ELSE "relational"

_detect_process_type(t) ==
    LET text_lower == lower(t) IN
    IF any_in(verbal_markers, text_lower) THEN "verbal"
    ELSE IF any_in(mental_markers, text_lower) THEN "mental"
    ELSE IF any_in(material_markers, text_lower) THEN "material"
    ELSE "relational"

\* the text not stripped before its end is looked at
_analyze_mood_no_strip(t) ==
    IF endswith(t, <<"?">>) THEN "interrogative"
    ELSE IF endswith(t, <<"!">>) THEN "exclamative"
    ELSE "declarative"

_analyze_mood(t) ==
    IF endswith(strip(t), <<"?">>) THEN "interrogative"
    ELSE IF endswith(strip(t), <<"!">>) THEN "exclamative"
    ELSE "declarative"

\* leading whitespace not skipped, as text.split(" ")[0] would do
_identify_theme_no_skip(t) ==
    LET words == split(t) IN
    IF t # <<>> /\ isspace(t[1]) THEN <<>>
    ELSE IF words # <<>> THEN words[1] ELSE <<>>

_identify_theme(t) ==
    LET words == split(t) IN
    IF words # <<>> THEN words[1] ELSE <<>>

\* the business terms looked for in the lower-cased text
_detect_field_lowered(t) ==
    IF any_in(business_terms, lower(t)) THEN "business" ELSE "general"

_detect_field(t) ==
    IF any_in(business_terms, t) THEN "business" ELSE "general"

_detect_tenor(t) ==
    IF any_in(formal_markers, lower(t)) THEN "formal" ELSE "neutral"

_detect_register(t) ==
    [field |-> _detect_field(t), tenor |-> _detect_tenor(t), mode |-> "written"]

_extract_participants(t) == <<>>

_extract_circumstances(t) == <<>>

\* the markers looked for in the text as written
_find_cohesion_markers_no_lower(t) == filter_in(cohesion_list, t)

_find_cohesion_markers(t) == filter_in(cohesion_list, lower(t))

_extract_sfl_features(t) ==
    LET process_type == _detect_process_type(t)
        mood == _analyze_mood(t)
        theme == _identify_theme(t)
        register == _detect_register(t)
    IN  [transitivity |->
             [process_type |-> process_type,
              participants |-> _extract_participants(t),
              circumstances |-> _extract_circumstances(t)],
         mood |-> mood,
         theme |-> theme,
         register |-> register,
         cohesion_markers |-> _find_cohesion_markers(t)]

(***************************************************************************)
(* The facade: SFLTranslator.                                              *)
(***************************************************************************)
\* confidence=0.92, in hundredths
Confidence == 92

SFLTranslator(source_lang, target_lang, register, localize) ==
    [source_lang |-> source_lang, target_lang |-> target_lang,
     register |-> register, localize |-> localize]

\* a region, when given, written after the target language
_perform_translation_regional(self, t, region) ==
    <<"[", "T", "r", "a", "n", "s", "l", "a", "t", "e", "d", " ", "t", "o", " ">>
        \o self.target_lang
        \o (IF region # None THEN <<"-">> \o region ELSE <<>>)
        \o <<"]", ":", " ">> \o t

\* f"[Translated to {self.target_lang}]: {text}"
_perform_translation(self, t, region) ==
    <<"[", "T", "r", "a", "n", "s", "l", "a", "t", "e", "d", " ", "t", "o", " ">>
        \o self.target_lang \o <<"]", ":", " ">> \o t

\* the features extracted whatever analyze says
translate_always_analyze(self, t, preserve_register, cultural_adaptation, analyze, region) ==
    [translation |->
         <<"[", "T", "r", "a", "n", "s", "l", "a", "t", "e", "d", " ", "t", "o", " ">>
             \o self.target_lang \o <<"]", ":", " ">> \o t,
     source_text |-> t,
     source_lang |-> self.source_lang,
     target_lang |-> self.target_lang,
     sfl_analysis |-> <<_extract_sfl_features(t)>>,
     confidence |-> 92]

translate(self, t, preserve_register, cultural_adaptation, analyze, region) ==
    LET sfl_features == IF analyze THEN <<_extract_sfl_features(t)>> ELSE None
        translated_text == _perform_translation(self, t, region)
    IN  [translation |-> translated_text,
         source_text |-> t,
         source_lang |-> self.source_lang,
         target_lang |-> self.target_lang,
         sfl_analysis |-> sfl_features,
         confidence |-> Confidence]

(***************************************************************************)
(* The agent wrapper: TranslationAgent.                                    *)
(***************************************************************************)
\* d[key] = value on a dict
dict_set(d, key, value) ==
    [k \in (DOMAIN d) \cup {key} |-> IF k = key THEN value ELSE d[k]]

\* bool(x) of an argument that is None or a function object
truthy(x) == x # None

\* None taken as "no callback any more"
register_callback_clearing(cbs, on_translation_complete) ==
    IF truthy(on_translation_complete)
    THEN dict_set(cbs, "on_complete", on_translation_complete)
    ELSE <<>>

\* the dict after register_callback(on_translation_complete)
register_callback(cbs, on_translation_complete) ==
    IF truthy(on_translation_complete)
    THEN dict_set(cbs, "on_complete", on_translation_complete)
    ELSE cbs

\* the callback fired only while the agent is running
agent_translate_gated(cbs, t, source_lang, target_lang) ==
    LET res == [translation |->
                    <<"[", "T", "r", "a", "n", "s", "l", "a", "t", "e", "d", " ",
                      "t", "o", " ">> \o target_lang \o <<"]", ":", " ">> \o t,
                source_text |-> t,
                source_lang |-> source_lang,
                target_lang |-> target_lang,
                sfl_analysis |-> None,
                confidence |-> 92]
    IN  <<[kind |-> "call", op |-> "translate",
           args |-> <<t, source_lang, target_lang>>],
          [kind |-> "translated", value |-> res]>>
        \o (IF is_running /\ "on_complete" \in DOMAIN cbs
            THEN <<[kind |-> "callback", fn |-> cbs["on_complete"], value |-> res]>>
            ELSE <<>>)
        \o <<[kind |-> "return", value |-> res.translation]>>

\* what TranslationAgent.translate does, in program order: the facade call
\* with its default options, then the callback if one is registered, then
\* the return of result.translation
agent_translate(cbs, t, source_lang, target_lang) ==
    LET tr == SFLTranslator(source_lang, target_lang, None, FALSE)
        res == translate(tr, t, TRUE, FALSE, FALSE, None)
    IN  <<[kind |-> "call", op |-> "translate",
           args |-> <<t, source_lang, target_lang>>],
          [kind |-> "translated", value |-> res]>>
        \o (IF "on_complete" \in DOMAIN cbs
            THEN <<[kind |-> "callback", fn |-> cbs["on_complete"], value |-> res]>>
            ELSE <<>>)
        \o <<[kind |-> "return", value |-> res.translation]>>

(***************************************************************************)
(* The inputs.                                                             *)
(***************************************************************************)
Fragments ==
    { <<"s", "a", "i", "d">>,
      <<"T", "h", "i", "n", "k">>,
      <<"d", "o">>,
      <<"C", "E", "O">>,
      <<"c", "e", "o">>,
      <<"C", "o", "m", "m", "i", "t", "t", "e", "e">>,
      <<"S", "h", "a", "l", "l">>,
      <<"H", "o", "w", "e", "v", "e", "r">>,
      <<"t", "h", "u", "s">>,
      <<"t", "h", "e", "r", "e", "f", "o", "r", "e">>,
      <<" ">>, <<"\t">>, <<"?">>, <<"!">>, <<"x">> }

RECURSIVE concat(_)
concat(fs) == IF fs = <<>> THEN <<>> ELSE Head(fs) \o concat(Tail(fs))

TextsUpTo(n) == {concat(fs) : fs \in UNION {[1..k -> Fragments] : k \in 0..n}}

Texts == TextsUpTo(MaxFrags)

FacadeTexts == TextsUpTo(MaxFacadeFrags)

AgentTexts ==
    { <<>>, <<"H", "e", "l", "l", "o">>, <<"T", "h", "i", "n", "k", "?">> }

SourceLangs == { <<"e", "n">>, <<"f", "r">> }

TargetLangs == { <<"f", "r">>, <<"d", "e">> }

Registers == { None, <<"f", "o", "r", "m", "a", "l">> }

Regions == { None, <<"C", "A">> }

AgentIds == { "agent-1", "agent-2" }

\* the function objects a caller hands to register_callback
Callables == { [fn |-> "on_done_1"], [fn |-> "on_done_2"] }

(***************************************************************************)
(* The extractor applied to a text.                                        *)
(***************************************************************************)
ExtractorIdle == text = <<>> /\ features = None

FacadeIdle ==
    /\ translator = SFLTranslator(<<"e", "n">>, <<"f", "r">>, None, FALSE)
    /\ call = [text |-> <<>>, preserve_register |-> TRUE,
               cultural_adaptation |-> FALSE, analyze |-> FALSE, region |-> None]
    /\ result = None

AgentIdle ==
    /\ agent_id = "agent-1"
    /\ callbacks = <<>>
    /\ is_running = FALSE
    /\ stdout = None
    /\ events = <<>>
    /\ history = [ctl |-> "none", cb |-> None]

ExtractorInit ==
    /\ text \in Texts
    /\ features = None
    /\ FacadeIdle
    /\ AgentIdle

Extract ==
    /\ features = None
    /\ features' = <<_extract_sfl_features(text)>>
    /\ UNCHANGED <<text, facadeVars, agentVars>>

ExtractorNext == Extract

ExtractorSpec == ExtractorInit /\ [][ExtractorNext]_vars

(***************************************************************************)
(* The facade: a translator is constructed and translate is called on it.  *)
(***************************************************************************)
FacadeInit ==
    /\ translator \in
         {SFLTranslator(s, t, r, l) :
            s \in SourceLangs, t \in TargetLangs, r \in Registers, l \in BOOLEAN}
    /\ call \in [text : FacadeTexts, preserve_register : BOOLEAN,
                 cultural_adaptation : BOOLEAN, analyze : BOOLEAN,
                 region : Regions]
    /\ result = None
    /\ ExtractorIdle
    /\ AgentIdle

Translate ==
    /\ result = None
    /\ result' = <<translate(translator, call.text, call.preserve_register,
                             call.cultural_adaptation, call.analyze, call.region)>>
    /\ UNCHANGED <<translator, call, extractorVars, agentVars>>

FacadeNext == Translate

FacadeSpec == FacadeInit /\ [][FacadeNext]_vars

(***************************************************************************)
(* The agent: any sequence of register_callback, start, stop, translate.   *)
(***************************************************************************)
AgentInit ==
    /\ agent_id \in AgentIds
    /\ callbacks = <<>>
    /\ is_running = FALSE
    /\ stdout = None
    /\ events = <<>>
    /\ history = [ctl |-> "none", cb |-> None]
    /\ ExtractorIdle
    /\ FacadeIdle

RegisterCallback(on_translation_complete) ==
    /\ callbacks' = register_callback(callbacks, on_translation_complete)
    /\ events' = <<[kind |-> "call", op |-> "register_callback",
                   args |-> <<on_translation_complete>>]>>
    /\ history' = [history EXCEPT !.cb =
                      IF on_translation_complete # None
                      THEN on_translation_complete ELSE @]
    /\ UNCHANGED <<agent_id, is_running, stdout, extractorVars, facadeVars>>

Start ==
    /\ is_running' = TRUE
    /\ stdout' = <<"Translation Agent", agent_id, "started">>
    /\ events' = <<[kind |-> "call", op |-> "start", args |-> <<>>]>>
    /\ history' = [history EXCEPT !.ctl = "start"]
    /\ UNCHANGED <<agent_id, callbacks, extractorVars, facadeVars>>

Stop ==
    /\ is_running' = FALSE
    /\ stdout' = <<"Translation Agent", agent_id, "stopped">>
    /\ events' = <<[kind |-> "call", op |-> "stop", args |-> <<>>]>>
    /\ history' = [history EXCEPT !.ctl = "stop"]
    /\ UNCHANGED <<agent_id, callbacks, extractorVars, facadeVars>>

AgentTranslate(t, source_lang, target_lang) ==
    /\ events' = agent_translate(callbacks, t, source_lang, target_lang)
    /\ UNCHANGED <<agent_id, callbacks, is_running, stdout, history,
                   extractorVars, facadeVars>>

AgentNext ==
    \/ \E cb \in Callables \cup {None} : RegisterCallback(cb)
    \/ Start
    \/ Stop
    \/ \E t \in AgentTexts, s \in SourceLangs, d \in TargetLangs :
          AgentTranslate(t, s, d)

AgentSpec == AgentInit /\ [][AgentNext]_vars

(***************************************************************************)
(* Vocabulary of the properties: the keyword sets as the specification     *)
(* lists them, and substring occurrence stated position by position.       *)
(***************************************************************************)
SpecVerbal ==
    { <<"s", "a", "i", "d">>, <<"a", "n", "n", "o", "u", "n", "c", "e", "d">>,
      <<"t", "o", "l", "d">>, <<"a", "s", "k", "e", "d">> }

SpecMental ==
    { <<"t", "h", "i", "n", "k">>, <<"b", "e", "l", "i", "e", "v", "e">>,
      <<"k", "n", "o", "w">>, <<"f", "e", "e", "l">> }

SpecMaterial ==
    { <<"d", "o">>, <<"m", "a", "k", "e">>,
      <<"c", "r", "e", "a", "t", "e">>, <<"b", "u", "i", "l", "d">> }

SpecBusiness ==
    { <<"c", "o", "m", "m", "i", "t", "t", "e", "e">>,
      <<"m", "e", "r", "g", "e", "r">>, <<"C", "E", "O">>,
      <<"p", "r", "o", "p", "o", "s", "a", "l">> }

SpecFormal ==
    { <<"s", "h", "a", "l", "l">>, <<"h", "e", "r", "e", "i", "n">>,
      <<"a", "f", "o", "r", "e", "m", "e", "n", "t", "i", "o", "n", "e", "d">> }

SpecCohesion ==
    << <<"h", "o", "w", "e", "v", "e", "r">>,
       <<"t", "h", "e", "r", "e", "f", "o", "r", "e">>,
       <<"m", "o", "r", "e", "o", "v", "e", "r">>,
       <<"t", "h", "u", "s">> >>

Moods == {"declarative", "interrogative", "exclamative"}

\* kw stands in s at position i
OccursAt(kw, s, i) ==
    /\ i >= 1
    /\ i + Len(kw) - 1 <= Len(s)
    /\ \A j \in 1..Len(kw) : s[i + j - 1] = kw[j]

Occurs(kw, s) == \E i \in 1..(Len(s) + 1) : OccursAt(kw, s, i)

HasAny(kws, s) == \E kw \in kws : Occurs(kw, s)

\* the positions of s that hold a character that is not whitespace
Inked(s) == {i \in 1..Len(s) : s[i] \notin Whitespace}

MinOf(S) == CHOOSE m \in S : \A n \in S : m <= n

MaxOf(S) == CHOOSE m \in S : \A n \in S : m >= n

Extracted == features # None

Bundle == features[1]

(***************************************************************************)
(* C1.  Process-type detection returns the first category, in the order    *)
(* verbal > mental > material, one of whose keywords occurs in the         *)
(* lower-cased text, and "relational" when no keyword occurs; the result   *)
(* is one of the six process types.                                        *)
(***************************************************************************)
C1_ProcessTypePriority ==
    Extracted =>
        LET p == Bundle.transitivity.process_type
            low == lower(text)
            v == HasAny(SpecVerbal, low)
            m == HasAny(SpecMental, low)
            a == HasAny(SpecMaterial, low)
        IN  /\ p \in ProcessType
            /\ v => p = "verbal"
            /\ (~v /\ m) => p = "mental"
            /\ (~v /\ ~m /\ a) => p = "material"
            /\ (~v /\ ~m /\ ~a) => p = "relational"

\* a text holding a verbal, a mental and a material keyword is "verbal"
C1_Witness ==
    /\ Extracted
    /\ HasAny(SpecVerbal, lower(text))
    /\ HasAny(SpecMental, lower(text))
    /\ HasAny(SpecMaterial, lower(text))
    /\ ~HasAny(SpecMental, text)
    /\ Bundle.transitivity.process_type = "verbal"

(***************************************************************************)
(* C4.  The cohesion markers are exactly the members of the list           *)
(* [however, therefore, moreover, thus] that occur in the lower-cased      *)
(* text, in the order of the list (not of the text), each at most once;    *)
(* none for the empty string.                                              *)
(***************************************************************************)
C4_CohesionMarkers ==
    Extracted =>
        LET cm == Bundle.cohesion_markers
            low == lower(text)
            pos(i) == CHOOSE k \in 1..Len(SpecCohesion) : SpecCohesion[k] = cm[i]
        IN  /\ \A i \in 1..Len(cm) :
                  \E k \in 1..Len(SpecCohesion) : SpecCohesion[k] = cm[i]
            /\ \A k \in 1..Len(SpecCohesion) :
                  Occurs(SpecCohesion[k], low)
                      <=> \E i \in 1..Len(cm) : cm[i] = SpecCohesion[k]
            /\ \A i, j \in 1..Len(cm) : i < j => pos(i) < pos(j)
            /\ text = <<>> => cm = <<>>

\* "thus" stands twice in the text, before and after "However", and the
\* markers are however, thus
C4_Witness ==
    /\ Extracted
    /\ \E i, j, k \in 1..Len(text) :
          /\ i < j /\ j < k
          /\ OccursAt(<<"t", "h", "u", "s">>, text, i)
          /\ OccursAt(<<"H", "o", "w", "e", "v", "e", "r">>, text, j)
          /\ OccursAt(<<"t", "h", "u", "s">>, text, k)
    /\ Bundle.cohesion_markers =
          << <<"h", "o", "w", "e", "v", "e", "r">>, <<"t", "h", "u", "s">> >>

C6_Register ==
    Extracted =>
        LET r == Bundle.register IN
        /\ DOMAIN r = {"field", "tenor", "mode"}
        /\ r.field = (IF HasAny(SpecBusiness, text) THEN "business" ELSE "general")
        /\ r.tenor = (IF HasAny(SpecFormal, lower(text)) THEN "formal" ELSE "neutral")
        /\ r.mode = "written"

\* "ceo" and "Shall": a general field with a formal tenor
C6_Witness ==
    /\ Extracted
    /\ Occurs(<<"c", "e", "o">>, text)
    /\ Occurs(<<"S", "h", "a", "l", "l">>, text)
    /\ Bundle.register = [field |-> "general", tenor |-> "formal", mode |-> "written"]

(***************************************************************************)
(* C7.  The theme is the first whitespace-delimited token of the text, and *)
(* the empty string when the text has none; the extractor returns a whole  *)
(* bundle for every text, and for the empty string the bundle holds the    *)
(* defaults.                                                               *)
(***************************************************************************)
C7_Theme ==
    Extracted =>
        LET ink == Inked(text)
            first == MinOf(ink)
            stops == {j \in first..Len(text) : text[j] \in Whitespace}
            end == IF stops = {} THEN Len(text) ELSE MinOf(stops) - 1
        IN  /\ DOMAIN Bundle =
                  {"transitivity", "mood", "theme", "register", "cohesion_markers"}
            /\ ink = {} => Bundle.theme = <<>>
            /\ ink # {} => Bundle.theme = SubSeq(text, first, end)
            /\ text = <<>> =>
                  /\ Bundle.mood = "declarative"
                  /\ Bundle.theme = <<>>
                  /\ Bundle.transitivity.process_type = "relational"
                  /\ Bundle.cohesion_markers = <<>>

\* leading whitespace, a token, then more text
C7_Witness ==
    /\ Extracted
    /\ Len(text) >= 3
    /\ text[1] \in Whitespace
    /\ Bundle.theme # <<>>
    /\ Len(text) > 1 + Len(Bundle.theme)

(***************************************************************************)
(* Vocabulary of the facade and agent properties.                          *)
(***************************************************************************)
\* "[Translated to {lang}]: {t}"
StubFormat(lang, t) ==
    <<"[", "T", "r", "a", "n", "s", "l", "a", "t", "e", "d", " ", "t", "o", " ">>
        \o lang \o <<"]", ":", " ">> \o t

Translated == result # None

Result == result[1]

\* the positions of the events of one kind in the last agent call
EventsOf(kind) == {i \in 1..Len(events) : events[i].kind = kind}

LastCallWas(op) == events # <<>> /\ events[1].op = op

(***************************************************************************)
(* C2.  The facade's result has translation "[Translated to                *)
(* {target_lang}]: {text}", confidence 0.92 and the source text and the    *)
(* two languages as given, and it is the result the same call gives with   *)
(* preserve_register, cultural_adaptation and region left at their         *)
(* defaults.                                                               *)
(***************************************************************************)
C2_StubResult ==
    Translated =>
        /\ Result.translation = StubFormat(translator.target_lang, call.text)
        /\ Result.confidence = 92
        /\ Result.source_text = call.text
        /\ Result.source_lang = translator.source_lang
        /\ Result.target_lang = translator.target_lang
        /\ Result = translate(translator, call.text, TRUE, FALSE, call.analyze, None)

\* a call with every option away from its default
C2_Witness ==
    /\ Translated
    /\ call.text # <<>>
    /\ call.region # None
    /\ ~call.preserve_register
    /\ call.cultural_adaptation
    /\ call.analyze
    /\ translator.register # None
    /\ translator.localize

(***************************************************************************)
(* C3.  The result holds a feature bundle exactly when analyze is true:    *)
(* None without it, and with it the bundle of the extractor for the same   *)
(* text, its participants and circumstances present and empty.             *)
(***************************************************************************)
C3_FeaturesIffAnalyze ==
    Translated =>
        /\ ~call.analyze => Result.sfl_analysis = None
        /\ call.analyze =>
              /\ Result.sfl_analysis = <<_extract_sfl_features(call.text)>>
              /\ Result.sfl_analysis[1].transitivity.participants = <<>>
              /\ Result.sfl_analysis[1].transitivity.circumstances = <<>>

\* a call without analyze on a text the extractor has something to say about
C3_Witness ==
    /\ Translated
    /\ ~call.analyze
    /\ Result.sfl_analysis = None
    /\ _extract_sfl_features(call.text).transitivity.process_type = "mental"

C10_RunningFlag ==
    /\ is_running = (history.ctl = "start")
    /\ callbacks = (IF history.cb = None THEN <<>>
                    ELSE [on_complete |-> history.cb])
    /\ LastCallWas("translate") =>
          /\ events[Len(events)].kind = "return"
          /\ events[Len(events)].value =
                StubFormat(events[1].args[3], events[1].args[1])
          /\ (EventsOf("callback") # {}) = (history.cb # None)

\* a translate call on a stopped agent that fired the callback
C10_Witness ==
    /\ LastCallWas("translate")
    /\ ~is_running
    /\ history.ctl = "stop"
    /\ EventsOf("callback") # {}

====
